---- MODULE Spec2Model ----
(***************************************************************************)
(* Memory Keeper: the daily reminder check (server/cronJobs.ts), the mail  *)
(* dispatch with its audit rows (server/emailService.ts), the storage      *)
(* query that feeds the check (server/storage.ts, getDueReminders) and the *)
(* manual trigger (server/routes.ts, POST /api/test-reminders).            *)
(*                                                                         *)
(* Time is the UTC instant `clock`, in hours since 1970-01-01T00:00Z.  The *)
(* host's local wall clock is clock + tzOffset.  A JavaScript Date is      *)
(* modelled by the local calendar fields [y, m, d] it reports through      *)
(* getFullYear / getMonth / getDate (m is 1..12 here, getMonth() + 1).     *)
(***************************************************************************)
EXTENDS Integers, Sequences, FiniteSets, TLC

VARIABLES
    clock,               \* UTC instant, hours since the epoch
    tzOffset,            \* host UTC offset in hours (TZ of the node process)
    env,                 \* process.env SMTP settings, the collaborators' faults
                         \* and the users the database is about to lose
    users,               \* table users: id -> row
    reminders,           \* table reminders: sequence of rows, id = position
    emailNotifications,  \* table email_notifications: sequence of rows
    ticks,               \* every trigger of the reminder check, with its progress
    lastCron,            \* instant of the last firing of the cron schedule
    manualCount,         \* POST /api/test-reminders requests so far
    lastPut,             \* the last PUT /api/user/settings and its response
    people,              \* table people: sequence of rows
    memories,            \* table memories: sequence of rows
    serial,              \* last value of the id sequence of each of the tables
                         \* people, memories and reminders
    lastApi              \* the last request to /api/people, /api/memories or
                         \* /api/reminders and its response

vars == <<clock, tzOffset, env, users, reminders, emailNotifications, ticks,
          lastCron, manualCount, lastPut, people, memories, serial, lastApi>>

(***************************************************************************)
(* Bounds of the model.                                                    *)
(***************************************************************************)
MaxClockSteps == 3       \* clock advances explored
MaxManual == 1           \* manual triggers explored

(***************************************************************************)
(* Program constants.                                                      *)
(***************************************************************************)
CronHour == 5            \* cron.schedule('0 5 * * *', ...)

(***************************************************************************)
(* Calendar arithmetic of the JavaScript Date object (proleptic Gregorian, *)
(* fixed UTC offset).                                                      *)
(***************************************************************************)

\* Day number (days since 1970-01-01) of year y, month m in 1..12, and any
\* integer day d: days outside the month roll over linearly.
DaysFromCivil(y, m, d) ==
    LET yy  == IF m <= 2 THEN y - 1 ELSE y
        era == yy \div 400
        yoe == yy - era * 400
        mp  == IF m > 2 THEN m - 3 ELSE m + 9
        doy == (153 * mp + 2) \div 5 + d - 1
        doe == yoe * 365 + yoe \div 4 - yoe \div 100 + doy
    IN  era * 146097 + doe - 719468

\* Calendar fields of a day number.
CivilFromDays(z) ==
    LET zz  == z + 719468
        era == zz \div 146097
        doe == zz - era * 146097
        yoe == (doe - doe \div 1460 + doe \div 36524 - doe \div 146096) \div 365
        doy == doe - (365 * yoe + yoe \div 4 - yoe \div 100)
        mp  == (5 * doy + 2) \div 153
        d   == doy - (153 * mp + 2) \div 5 + 1
        m   == IF mp < 10 THEN mp + 3 ELSE mp - 9
        y   == yoe + era * 400 + (IF m <= 2 THEN 1 ELSE 0)
    IN  [y |-> y, m |-> m, d |-> d]

\* new Date(year, monthIndex, day): out-of-range month and day values are
\* carried into the next larger field.  Here m = monthIndex + 1.  (Years
\* 0..99, which JavaScript reads as 1900..1999, are not among the dates
\* explored.)
NewDate(y, m, d) ==
    LET mi == m - 1
        ny == y + mi \div 12
        nm == (mi % 12) + 1
    IN  CivilFromDays(DaysFromCivil(ny, nm, d))

\* date.setDate(date.getDate() + delta)
SetDate(date, delta) == NewDate(date.y, date.m, date.d + delta)

\* new Date(): the local calendar fields of the instant c.
LocalDate(c) == CivilFromDays((c + tzOffset) \div 24)

\* new Date().getHours()
LocalHour(c) == (c + tzOffset) % 24

\* new Date().toISOString().split('T')[0]: the UTC calendar day of c.
UtcDate(c) == CivilFromDays(c \div 24)

\* Order of two calendar days, as SQL compares DATE values.
DateLte(a, b) == DaysFromCivil(a.y, a.m, a.d) <= DaysFromCivil(b.y, b.m, b.d)

\* isSameDay with the year comparison left out.
isSameDayOfAnyYear(date1, date2) ==
    /\ date1.m = date2.m
    /\ date1.d = date2.d

\* CronJobService.isSameDay
isSameDay(date1, date2) ==
    /\ date1.y = date2.y
    /\ date1.m = date2.m
    /\ date1.d = date2.d

(***************************************************************************)
(* Data the model draws its tables from.                                   *)
(***************************************************************************)
UserIds == {"u1", "u2"}
Addr == {"a", "b", "p", "q"}
NoEmail == ""            \* a NULL users.email / an empty address string

Date(y, m, d) == [y |-> y, m |-> m, d |-> d]

\* The first instant explored: 2025-02-28T05:00Z.
StartClock == DaysFromCivil(2025, 2, 28) * 24 + 5

\* The last instant explored.
EndClock == StartClock + 12 * MaxClockSteps

\* Host offsets explored: behind UTC, UTC, ahead of UTC.
TzChoices == {0 - 12, 0, 12}

DateChoices == {Date(2025, 2, 28), Date(2025, 3, 1), Date(2024, 3, 1)}

ReminderIds == {1, 2}

\* A row of table reminders (the columns the reminder check reads).
ReminderRow(id, userId, type, date, advanceDays, isRecurring, isActive) ==
    [id |-> id, userId |-> userId, type |-> type, reminderDate |-> date,
     advanceDays |-> advanceDays, isRecurring |-> isRecurring,
     isActive |-> isActive]

\* A row of table users.
UserRow(id, email, notificationEmails) ==
    [id |-> id, email |-> email, notificationEmails |-> notificationEmails]

NoFaults ==
    [smtp |-> TRUE, sendFails |-> {}, lookupFails |-> {}, auditFails |-> {},
     fetchFails |-> FALSE, orphans |-> {}]

(***************************************************************************)
(* server/storage.ts                                                       *)
(***************************************************************************)

\* Rows of s in ascending reminderDate order (rows of one date in id order).
RECURSIVE OrderByDate(_)
OrderByDate(S) ==
    IF S = {} THEN <<>>
    ELSE LET first == CHOOSE r \in S :
                        \A q \in S :
                            \/ ~DateLte(q.reminderDate, r.reminderDate)
                            \/ /\ q.reminderDate = r.reminderDate
                               /\ r.id <= q.id
         IN  <<first>> \o OrderByDate(S \ {first})

\* The query without its isActive condition.
getDueRemindersOfAnyState(c) ==
    LET today == UtcDate(c)
    IN  OrderByDate({reminders[i] : i \in
            {j \in DOMAIN reminders :
                DateLte(reminders[j].reminderDate, today)}})

\* DatabaseStorage.getDueReminders, called at instant c: the active rows whose
\* reminderDate is not after the UTC calendar day of c.
getDueReminders(c) ==
    LET today == UtcDate(c)
    IN  OrderByDate({reminders[i] : i \in
            {j \in DOMAIN reminders :
                /\ reminders[j].isActive
                /\ DateLte(reminders[j].reminderDate, today)}})

\* DatabaseStorage.createEmailNotification: the inserted row.
NotificationRow(userId, reminderId, emailAddress, subject, status, at) ==
    [userId |-> userId, reminderId |-> reminderId,
     emailAddress |-> emailAddress, subject |-> subject, status |-> status,
     sentAt |-> at]

\* Rows written in place of the stored rows of the same reminder and address.
UpsertNotifications(rows) ==
    SelectSeq(emailNotifications,
              LAMBDA n : \A k \in DOMAIN rows :
                             ~(/\ rows[k].reminderId = n.reminderId
                               /\ rows[k].emailAddress = n.emailAddress))
    \o rows

\* db.insert(emailNotifications).values(...) for each row in turn: the table
\* afterwards.
InsertNotifications(rows) == emailNotifications \o rows

\* DatabaseStorage.getUser: the row, when there is one.
HasUser(id) == id \in DOMAIN users

(***************************************************************************)
(* server/emailService.ts                                                  *)
(***************************************************************************)

\* EmailService.generateSubject: the subject's kind and day phrase.  The
\* phrase depends on the row's advanceDays alone.
generateSubject(reminder) ==
    IF reminder.type = "birthday"
    THEN [kind |-> "birthday",
          phrase |-> IF reminder.advanceDays > 0 THEN "in days" ELSE "is today",
          days |-> IF reminder.advanceDays > 0 THEN reminder.advanceDays ELSE 0]
    ELSE [kind |-> reminder.type, phrase |-> "reminder", days |-> 0]

\* array.filter(Boolean) on a list of addresses: drops the empty ones.
FilterBoolean(list) == SelectSeq(list, LAMBDA e : e # NoEmail)

\* The addresses sendReminderEmail selects for a user.
EmailAddresses(user) ==
    IF Len(user.notificationEmails) > 0
    THEN user.notificationEmails
    ELSE FilterBoolean(<<user.email>>)

\* The loop with a second sendMail call after a rejected one.
RECURSIVE SendLoopWithRetry(_, _, _, _)
SendLoopWithRetry(user, reminder, addrs, at) ==
    IF addrs = <<>>
    THEN [sends |-> <<>>, rows |-> <<>>, threw |-> FALSE]
    ELSE LET email == Head(addrs)
             call(ok) == [reminderId |-> reminder.id, to |-> email, ok |-> ok,
                          at |-> at]
         IN  IF email \in env.sendFails
             THEN [sends |-> <<call(FALSE), call(FALSE)>>, rows |-> <<>>,
                   threw |-> TRUE]
             ELSE IF email \in env.auditFails
             THEN [sends |-> <<call(TRUE)>>, rows |-> <<>>, threw |-> TRUE]
             ELSE LET rest == SendLoopWithRetry(user, reminder, Tail(addrs), at)
                  IN  [sends |-> <<call(TRUE)>> \o rest.sends,
                       rows |-> <<NotificationRow(user.id, reminder.id, email,
                                      generateSubject(reminder), "sent", at)>>
                                \o rest.rows,
                       threw |-> rest.threw]

\* The for loop of sendReminderEmail over the addresses still to do: per
\* address one transporter.sendMail call, then one audit row with status
\* sent.  A rejected send or a failed insert throws and leaves the loop.
RECURSIVE SendLoop(_, _, _, _)
SendLoop(user, reminder, addrs, at) ==
    IF addrs = <<>>
    THEN [sends |-> <<>>, rows |-> <<>>, threw |-> FALSE]
    ELSE LET email == Head(addrs)
             call(ok) == [reminderId |-> reminder.id, to |-> email, ok |-> ok,
                          at |-> at]
         IN  IF email \in env.sendFails
             THEN [sends |-> <<call(FALSE)>>, rows |-> <<>>, threw |-> TRUE]
             ELSE IF email \in env.auditFails
             THEN [sends |-> <<call(TRUE)>>, rows |-> <<>>, threw |-> TRUE]
             ELSE LET rest == SendLoop(user, reminder, Tail(addrs), at)
                  IN  [sends |-> <<call(TRUE)>> \o rest.sends,
                       rows |-> <<NotificationRow(user.id, reminder.id, email,
                                      generateSubject(reminder), "sent", at)>>
                                \o rest.rows,
                       threw |-> rest.threw]

\* EmailService.sendReminderEmail at instant `at`: the sendMail calls made,
\* the audit rows inserted, and whether the call ends by throwing.
sendReminderEmail(user, reminder, at) ==
    LET emailAddresses == EmailAddresses(user)
        loop == SendLoop(user, reminder, FilterBoolean(emailAddresses), at)
        failedTo == IF user.email # NoEmail THEN user.email ELSE NoEmail
    IN  IF Len(emailAddresses) = 0
        THEN [recipients |-> emailAddresses, sends |-> <<>>, rows |-> <<>>,
              threw |-> FALSE]
        ELSE IF ~loop.threw
        THEN [recipients |-> emailAddresses, sends |-> loop.sends,
              rows |-> loop.rows, threw |-> FALSE]
        \* catch: one row with status failed, addressed to user.email
        ELSE IF failedTo \in env.auditFails
        THEN [recipients |-> emailAddresses, sends |-> loop.sends,
              rows |-> loop.rows, threw |-> TRUE]
        ELSE [recipients |-> emailAddresses, sends |-> loop.sends,
              rows |-> loop.rows \o
                       <<NotificationRow(user.id, reminder.id, failedTo,
                             generateSubject(reminder), "failed", at)>>,
              threw |-> FALSE]

(***************************************************************************)
(* server/cronJobs.ts                                                      *)
(***************************************************************************)

\* The two date tests of checkAndSendAllReminders for one row: today is the
\* reminder date; today is advanceDays days before it.
DateTests(today, reminder) ==
    LET reminderDate == NewDate(reminder.reminderDate.y,
                                reminder.reminderDate.m,
                                reminder.reminderDate.d)
    IN  [due |-> isSameDay(today, reminderDate),
         advance |-> /\ reminder.advanceDays > 0
                     /\ isSameDay(today, SetDate(reminderDate,
                                                 0 - reminder.advanceDays))]

\* emailType after both tests: the second test, when it passes, overwrites
\* the first ('' leaves shouldSend false).
EmailType(tests) ==
    IF tests.advance THEN "advance" ELSE IF tests.due THEN "due" ELSE ""

\* A trigger of the reminder check as it begins: kind is "cron" or "manual";
\* ran tells whether checkAndSendAllReminders was entered.
NewTick(kind, ran, failed, rows) ==
    [kind |-> kind, at |-> clock, ran |-> ran, today |-> LocalDate(clock),
     pc |-> IF ran /\ ~failed /\ Len(rows) > 0 THEN "loop" ELSE "done",
     error |-> failed, fetched |-> ran /\ ~failed,
     allReminders |-> rows, i |-> 1,
     evaluated |-> <<>>, skipped |-> <<>>, dispatched |-> <<>>]

\* The check as it would be if a failed query gave rows all the same.
BeginCheckDespiteFailure(kind) ==
    NewTick(kind, TRUE, FALSE, getDueReminders(clock))

\* checkAndSendAllReminders up to the for loop: reads the clock and awaits
\* storage.getDueReminders(); a rejected query ends the check in the catch.
BeginCheck(kind) ==
    IF env.fetchFails
    THEN NewTick(kind, TRUE, TRUE, <<>>)
    ELSE NewTick(kind, TRUE, FALSE, getDueReminders(clock))

Running == {t \in DOMAIN ticks : ticks[t].pc = "loop"}

\* A schedule that fires at 05:00 and at 17:00 local time.
CronFireTwiceADay ==
    /\ LocalHour(clock) \in {CronHour, CronHour + 12}
    /\ lastCron # clock
    /\ lastCron' = clock
    /\ ticks' = Append(ticks, BeginCheck("cron"))
    /\ UNCHANGED <<clock, tzOffset, env, users, reminders,
                   emailNotifications, manualCount, lastPut, people,
                   memories, serial, lastApi>>

\* The cron schedule '0 5 * * *' fires: 05:00 local time.
CronFire ==
    /\ LocalHour(clock) = CronHour
    /\ lastCron # clock
    /\ lastCron' = clock
    /\ ticks' = Append(ticks, BeginCheck("cron"))
    /\ UNCHANGED <<clock, tzOffset, env, users, reminders,
                   emailNotifications, manualCount, lastPut, people,
                   memories, serial, lastApi>>

\* if (!user) return: the check gives up at the row without a user.
SkipAndStop(tick, reminder, next) ==
    [tick EXCEPT !.pc = "done", !.skipped = Append(tick.skipped, reminder)]

\* if (!user) continue: on to the next row, nothing evaluated or sent.
SkipReminder(tick, reminder, next) ==
    [next EXCEPT !.skipped = Append(tick.skipped, reminder)]

\* One iteration of the for loop of tick t: look the owner up, test the
\* dates, send when due.  An exception (rejected lookup, sendReminderEmail
\* throwing) leaves the loop for the catch of checkAndSendAllReminders.
ProcessReminder(t) ==
    /\ t \in Running
    /\ LET tick == ticks[t]
           reminder == tick.allReminders[tick.i]
           last == tick.i = Len(tick.allReminders)
           next == [tick EXCEPT !.i = tick.i + 1,
                                !.pc = IF last THEN "done" ELSE "loop"]
           tests == DateTests(tick.today, reminder)
           emailType == EmailType(tests)
           result == sendReminderEmail(users[reminder.userId], reminder, clock)
           seen == Append(tick.evaluated,
                          [reminder |-> reminder, due |-> tests.due,
                           advance |-> tests.advance,
                           emailType |-> emailType])
       IN  IF reminder.userId \in env.lookupFails
           THEN /\ ticks' = [ticks EXCEPT ![t] =
                                [tick EXCEPT !.pc = "done", !.error = TRUE]]
                /\ UNCHANGED emailNotifications
           ELSE IF ~HasUser(reminder.userId)
           THEN /\ ticks' = [ticks EXCEPT ![t] =
                                SkipReminder(tick, reminder, next)]
                /\ UNCHANGED emailNotifications
           ELSE IF emailType = ""
           THEN /\ ticks' = [ticks EXCEPT ![t] =
                                [next EXCEPT !.evaluated = seen]]
                /\ UNCHANGED emailNotifications
           ELSE /\ emailNotifications' = InsertNotifications(result.rows)
                /\ ticks' = [ticks EXCEPT ![t] =
                      [next EXCEPT
                         !.evaluated = seen,
                         !.dispatched = Append(tick.dispatched,
                             [reminder |-> reminder, emailType |-> emailType,
                              recipients |-> result.recipients,
                              sends |-> result.sends, rows |-> result.rows,
                              threw |-> result.threw]),
                         !.pc = IF result.threw THEN "done" ELSE next.pc,
                         !.error = result.threw]]
    /\ UNCHANGED <<clock, tzOffset, env, users, reminders, lastCron,
                   manualCount, lastPut, people, memories, serial, lastApi>>

(***************************************************************************)
(* server/routes.ts                                                        *)
(***************************************************************************)

\* POST /api/test-reminders: answers "not configured" without running the
\* check when SMTP_USER or SMTP_PASS is unset, else cronJobService.testReminders().
TestReminders ==
    /\ manualCount < MaxManual
    /\ manualCount' = manualCount + 1
    /\ ticks' = Append(ticks,
                    IF env.smtp THEN BeginCheck("manual")
                    ELSE NewTick("manual", FALSE, FALSE, <<>>))
    /\ UNCHANGED <<clock, tzOffset, env, users, reminders,
                   emailNotifications, lastCron, lastPut, people, memories,
                   serial, lastApi>>

(***************************************************************************)
(* The environment.                                                        *)
(***************************************************************************)

\* Twelve hours pass.  The schedule has fired if this is its hour, and the
\* checks in progress have ended (a check lasts less than twelve hours).
AdvanceClock ==
    /\ clock < EndClock
    /\ Running = {}
    /\ LocalHour(clock) = CronHour => lastCron = clock
    /\ clock' = clock + 12
    /\ UNCHANGED <<tzOffset, env, users, reminders, emailNotifications,
                   ticks, lastCron, manualCount, lastPut, people, memories,
                   serial, lastApi>>

\* The database answers queries again after an outage.
StorageRecovers ==
    /\ env.fetchFails
    /\ env' = [env EXCEPT !.fetchFails = FALSE]
    /\ UNCHANGED <<clock, tzOffset, users, reminders, emailNotifications,
                   ticks, lastCron, manualCount, lastPut, people, memories,
                   serial, lastApi>>

\* A users row is deleted in the database (no route of the application does
\* it).  The foreign keys of reminders and email_notifications cascade.  A
\* check in progress keeps the rows it has fetched.
DeleteUser(u) ==
    /\ u \in env.orphans
    /\ u \in DOMAIN users
    /\ users' = [v \in DOMAIN users \ {u} |-> users[v]]
    /\ reminders' = SelectSeq(reminders, LAMBDA r : r.userId # u)
    /\ emailNotifications' =
          SelectSeq(emailNotifications, LAMBDA n : n.userId # u)
    /\ people' = SelectSeq(people, LAMBDA q : q.userId # u)
    /\ memories' = SelectSeq(memories, LAMBDA q : q.userId # u)
    /\ UNCHANGED <<clock, tzOffset, env, ticks, lastCron, manualCount,
                   lastPut, serial, lastApi>>

\* Rows with the dates, the advance notice and the recurrence varied.
DateRows(id) ==
    {ReminderRow(id, "u1", "birthday", date, adv, rec, TRUE) :
        date \in DateChoices, adv \in {0, 1}, rec \in BOOLEAN}

\* Two rows of two owners, due on the first day explored.
DueRows ==
    <<ReminderRow(1, "u1", "birthday", Date(2025, 2, 28), 0, FALSE, TRUE),
      ReminderRow(2, "u2", "custom", Date(2025, 2, 28), 0, FALSE, TRUE)>>

\* No settings request yet.
NoPut == [status |-> 0]

\* No row inserted yet in people, memories or reminders.
NoSerial == [people |-> 0, memories |-> 0, reminders |-> 0]

\* No request yet to the routes of people, memories and reminders.
NoRequest == [route |-> "", status |-> 0]

\* The second user: a primary address and no notification addresses.
PlainUser == UserRow("u2", "q", <<>>)

\* The users table with its usual two rows.
TwoUsers ==
    [u \in UserIds |->
        IF u = "u1" THEN UserRow(u, "p", <<"a", "b">>) ELSE PlainUser]

\* Rows active or not, recurring or not, dated on the first day explored or
\* on the leap day of the year before.
FlagRows(id) ==
    {ReminderRow(id, "u1", "birthday", date, 0, rec, act) :
        date \in {Date(2025, 2, 28), Date(2024, 2, 29)},
        rec \in BOOLEAN, act \in BOOLEAN}

\* Two rows due on the first day explored, the first one's owner about to
\* be deleted.
OrphanRows ==
    <<ReminderRow(1, "u2", "custom", Date(2025, 2, 28), 0, FALSE, TRUE),
      ReminderRow(2, "u1", "birthday", Date(2025, 2, 28), 0, FALSE, TRUE)>>

\* Dates varied, hosts on either side of UTC, collaborators healthy.
InitDates ==
    /\ tzOffset \in TzChoices
    /\ env \in {[NoFaults EXCEPT !.smtp = c] : c \in BOOLEAN}
    /\ users = TwoUsers
    /\ \E r1 \in DateRows(1), r2 \in DateRows(2) : reminders = <<r1, r2>>

\* Recipients and collaborator faults varied, dates fixed.
InitFaults ==
    /\ tzOffset = 0
    /\ env \in [smtp : BOOLEAN, sendFails : SUBSET {"a", "b", "p"},
                 lookupFails : SUBSET {"u1"},
                 auditFails : {{}, {"a"}, {"p", NoEmail}, Addr \cup {NoEmail}},
                 fetchFails : {FALSE}, orphans : {{}}]
    /\ \E e \in {"p", NoEmail}, n \in {<<>>, <<"a">>, <<"a", "b">>} :
          users = [u \in UserIds |->
                     IF u = "u1" THEN UserRow(u, e, n) ELSE PlainUser]
    /\ reminders = DueRows

\* The database is down at first and may come back.
InitOutage ==
    /\ tzOffset \in TzChoices
    /\ env \in {[NoFaults EXCEPT !.smtp = c, !.fetchFails = TRUE] :
                   c \in BOOLEAN}
    /\ users = TwoUsers
    /\ reminders = DueRows

\* Active and inactive rows, with a leap-day date among them.
InitFlags ==
    /\ tzOffset = 0
    /\ env = NoFaults
    /\ users = TwoUsers
    /\ \E r1 \in FlagRows(1), r2 \in FlagRows(2) : reminders = <<r1, r2>>

\* The owner of the first row is deleted at some time during the run.
InitOrphan ==
    /\ tzOffset = 0
    /\ env \in {[NoFaults EXCEPT !.smtp = c, !.orphans = {"u2"}] :
                   c \in BOOLEAN}
    /\ users = TwoUsers
    /\ reminders = OrphanRows

Init ==
    /\ clock = StartClock
    /\ lastCron = StartClock - 1
    /\ manualCount = 0
    /\ emailNotifications = <<>>
    /\ ticks = <<>>
    /\ lastPut = NoPut
    /\ people = <<>>
    /\ memories = <<>>
    /\ serial = NoSerial
    /\ lastApi = NoRequest
    /\ \/ InitDates
       \/ InitFaults
       \/ InitOutage
       \/ InitFlags
       \/ InitOrphan

Next ==
    \/ CronFire
    \/ TestReminders
    \/ \E t \in DOMAIN ticks : ProcessReminder(t)
    \/ StorageRecovers
    \/ \E u \in UserIds : DeleteUser(u)
    \/ AdvanceClock

Spec == Init /\ [][Next]_vars

\* A row whose reminder_date text is no day of the calendar (the date column
\* of PostgreSQL refuses such a value; the check itself reads the text as it
\* comes from storage), beside a row due on the first day explored.
MalformedRows ==
    {ReminderRow(1, "u1", "birthday", date, adv, FALSE, TRUE) :
        date \in {Date(2025, 2, 29), Date(2025, 2, 30)}, adv \in {0, 1}}

InitMalformed ==
    /\ clock = StartClock
    /\ lastCron = StartClock - 1
    /\ manualCount = 0
    /\ emailNotifications = <<>>
    /\ ticks = <<>>
    /\ lastPut = NoPut
    /\ people = <<>>
    /\ memories = <<>>
    /\ serial = NoSerial
    /\ lastApi = NoRequest
    /\ tzOffset \in TzChoices
    /\ env \in {[NoFaults EXCEPT !.smtp = c, !.fetchFails = f, !.orphans = o] :
                   c \in BOOLEAN, f \in BOOLEAN, o \in {{}, {"u2"}}}
    /\ users = TwoUsers
    /\ \E r1 \in MalformedRows : reminders = <<r1, DueRows[2]>>

SpecMalformed == InitMalformed /\ [][Next]_vars

(***************************************************************************)
(* server/routes.ts: PUT /api/user/settings                                *)
(***************************************************************************)

\* Address texts a client may send, one character per element.
Plain == <<"a", "@", "b", ".", "c">>
NoAt == <<"a", "b", ".", "c">>
NoDot == <<"a", "@", "b", "c">>
Spaced == <<"a", " ", "@", "b", ".", "c">>
TwoAts == <<"a", "@", "b", "@", "c", ".", "d">>
EmptyLabel == <<"a", "@", "b", ".", ".", "c">>
TrailingDot == <<"a", "@", "b", ".", "c", ".">>

AddressTexts == {Plain, NoAt, NoDot, Spaced, TwoAts, EmptyLabel, TrailingDot}

\* req.body: notificationEmails absent, or an array of one text, or of two
\* with the first one well-formed.
Bodies ==
    {[present |-> FALSE, value |-> <<>>]} \cup
    {[present |-> TRUE, value |-> v] :
        v \in {<<>>} \cup {<<x>> : x \in AddressTexts}
                     \cup {<<Plain, y>> : y \in AddressTexts}}

\* The class [^\s@] of the regular expression.
NotSpaceNotAt(c) == c # " " /\ c # "@"

\* One or more characters of s from position lo to hi, all of [^\s@].
OneOrMore(s, lo, hi) ==
    lo <= hi /\ \A k \in lo .. hi : NotSpaceNotAt(s[k])

\* emailRegex.test(email) for /^[^\s@]+@[^\s@]+\.[^\s@]+$/: some "@" and some
\* later "." split the whole text into three runs of [^\s@].
emailRegexTest(email) ==
    \E i, j \in 1 .. Len(email) :
        /\ email[i] = "@"
        /\ email[j] = "."
        /\ OneOrMore(email, 1, i - 1)
        /\ OneOrMore(email, i + 1, j - 1)
        /\ OneOrMore(email, j + 1, Len(email))

\* storage.updateUserSettings(userId, {notificationEmails}): the users table
\* with the row's notification_emails set, left alone when the value is
\* undefined.
updateUserSettings(userId, settings) ==
    [users EXCEPT ![userId].notificationEmails =
        IF settings.present THEN settings.value ELSE @]

\* The handler: 400 at the first text the regular expression refuses, else
\* the update and the stored list as the answer.
PutSettings(userId, body) ==
    /\ userId \in DOMAIN users
    /\ LET refused == {k \in DOMAIN body.value : ~emailRegexTest(body.value[k])}
       IN  IF body.present /\ refused # {}
           THEN /\ lastPut' = [status |-> 400, userId |-> userId, body |-> body,
                               invalid |-> body.value[CHOOSE k \in refused :
                                              \A q \in refused : k <= q]]
                /\ UNCHANGED users
           ELSE /\ users' = updateUserSettings(userId, body)
                /\ lastPut' = [status |-> 200, userId |-> userId, body |-> body,
                               notificationEmails |->
                                   users'[userId].notificationEmails]
    /\ UNCHANGED <<clock, tzOffset, env, reminders, emailNotifications,
                   ticks, lastCron, manualCount, people, memories, serial,
                   lastApi>>

\* Two users without notification addresses, no reminders.
InitSettings ==
    /\ clock = StartClock
    /\ lastCron = StartClock - 1
    /\ manualCount = 0
    /\ emailNotifications = <<>>
    /\ ticks = <<>>
    /\ lastPut = NoPut
    /\ people = <<>>
    /\ memories = <<>>
    /\ serial = NoSerial
    /\ lastApi = NoRequest
    /\ tzOffset = 0
    /\ env = NoFaults
    /\ users = [u \in UserIds |-> UserRow(u, "p", <<>>)]
    /\ reminders = <<>>

NextSettings == \E userId \in UserIds, body \in Bodies : PutSettings(userId, body)

SpecSettings == InitSettings /\ [][NextSettings]_vars

(***************************************************************************)
(* server/routes.ts and server/storage.ts: people, memories, reminders     *)
(***************************************************************************)

\* Most rows ever inserted in each table.
MaxPeople == 1
MaxMemories == 1
MaxReminders == 1

\* A field the request body does not have.
Undefined == "undefined"

\* No person: the null of the person_id columns.
NoPerson == 0

PersonRow(id, userId, fullName) ==
    [id |-> id, userId |-> userId, fullName |-> fullName]

MemoryRow(id, userId, personId, content) ==
    [id |-> id, userId |-> userId, personId |-> personId, content |-> content]

\* A reminders row with the columns the routes below deal with.
ApiReminderRow(id, userId, personId, title) ==
    [id |-> id, userId |-> userId, personId |-> personId, title |-> title,
     type |-> "custom", reminderDate |-> Date(2025, 2, 28), advanceDays |-> 0,
     isRecurring |-> FALSE, isActive |-> TRUE]

\* The tables whose rows a request leaves alone.
TickState ==
    <<clock, tzOffset, env, users, emailNotifications, ticks, lastCron,
      manualCount, lastPut>>

\* The request bodies: the required text field present or not, an optional
\* personId.
PersonBodies == {[fullName |-> n] : n \in {Undefined, "Ann"}}
MemoryBodies ==
    {[content |-> c, personId |-> q] :
        c \in {Undefined, "met"}, q \in 0 .. MaxPeople}
ReminderBodies ==
    {[title |-> c, personId |-> q] :
        c \in {Undefined, "call"}, q \in 0 .. MaxPeople}

\* The bodies of the PUT routes: every field optional, userId among them.
PersonUpdates ==
    {[fullName |-> n, userId |-> u] :
        n \in {Undefined, "Bob"}, u \in {Undefined} \cup UserIds}
MemoryUpdates ==
    {[content |-> c, userId |-> u] :
        c \in {Undefined, "wrote"}, u \in {Undefined} \cup UserIds}
ReminderUpdates ==
    {[title |-> c, userId |-> u] :
        c \in {Undefined, "write"}, u \in {Undefined} \cup UserIds}

\* The rows of a table.
Rows(table) == {table[k] : k \in DOMAIN table}

\* The foreign key person_id references people.id: null or a stored person.
\* The person columns of a left join that matched no person: all null.
NullPerson == PersonRow(NoPerson, Undefined, Undefined)

PersonExists(personId) ==
    personId = NoPerson \/ \E k \in DOMAIN people : people[k].id = personId

\* leftJoin(people, eq(x.personId, people.id)) for one row: the person with
\* that id, NullPerson when there is none.
LeftJoinPerson(row) ==
    IF \E k \in DOMAIN people : people[k].id = row.personId
    THEN people[CHOOSE k \in DOMAIN people : people[k].id = row.personId]
    ELSE NullPerson

\* .set({...updates}) on a row: the fields the body has replace the row's.
SetFields(row, updates, field) ==
    [row EXCEPT ![field] = IF updates[field] = Undefined THEN @
                             ELSE updates[field],
                !.userId = IF updates.userId = Undefined THEN @
                           ELSE updates.userId]

\* db.update(table).set(updates).where(id = id and user_id = userId).
UpdateWhere(table, id, userId, updates, field) ==
    [k \in DOMAIN table |->
        IF table[k].id = id /\ table[k].userId = userId
        THEN SetFields(table[k], updates, field)
        ELSE table[k]]

\* db.delete(table).where(id = id and user_id = userId).
DeleteWhere(table, id, userId) ==
    SelectSeq(table, LAMBDA row : ~(row.id = id /\ row.userId = userId))

\* The response with the request it answers.
Answer(route, userId, id, body, status) ==
    [route |-> route, userId |-> userId, id |-> id, body |-> body,
     status |-> status]

\* POST /api/people: insertPersonSchema.parse throws without fullName and
\* the catch answers 500; else createPerson inserts the row.
PostPeople(userId, body) ==
    /\ body.fullName # Undefined => serial.people < MaxPeople
    /\ IF body.fullName = Undefined
       THEN /\ lastApi' = Answer("POST /api/people", userId, 0, body, 500)
            /\ UNCHANGED <<people, serial>>
       ELSE /\ people' = Append(people, PersonRow(serial.people + 1, userId,
                                                   body.fullName))
            /\ serial' = [serial EXCEPT !.people = @ + 1]
            /\ lastApi' = Answer("POST /api/people", userId, 0, body, 200)
    /\ UNCHANGED <<memories, reminders>>
    /\ UNCHANGED TickState

\* PUT /api/people/:id.
PutPeople(userId, id, updates) ==
    /\ people' = UpdateWhere(people, id, userId, updates, "fullName")
    /\ lastApi' = Answer("PUT /api/people/:id", userId, id, updates, 200)
    /\ UNCHANGED <<memories, reminders, serial>>
    /\ UNCHANGED TickState

\* DELETE /api/people/:id; memories.person_id and reminders.person_id
\* cascade.
DeletePeople(userId, id) ==
    /\ people' = DeleteWhere(people, id, userId)
    /\ LET gone == {q.id : q \in Rows(people)} \ {q.id : q \in Rows(people')}
       IN  /\ memories' = SelectSeq(memories, LAMBDA m : m.personId \notin gone)
           /\ reminders' = SelectSeq(reminders, LAMBDA r : r.personId \notin gone)
    /\ lastApi' = Answer("DELETE /api/people/:id", userId, id, <<>>, 200)
    /\ UNCHANGED serial
    /\ UNCHANGED TickState

\* POST /api/memories: the parse throws without content, the insert throws
\* when personId names no person; the catch answers 500.
PostMemories(userId, body) ==
    /\ (body.content # Undefined /\ PersonExists(body.personId))
          => serial.memories < MaxMemories
    /\ IF body.content = Undefined \/ ~PersonExists(body.personId)
       THEN /\ lastApi' = Answer("POST /api/memories", userId, 0, body, 500)
            /\ UNCHANGED <<memories, serial>>
       ELSE /\ memories' = Append(memories,
                                MemoryRow(serial.memories + 1, userId,
                                          body.personId, body.content))
            /\ serial' = [serial EXCEPT !.memories = @ + 1]
            /\ lastApi' = Answer("POST /api/memories", userId, 0, body, 200)
    /\ UNCHANGED <<people, reminders>>
    /\ UNCHANGED TickState

\* PUT /api/memories/:id.
PutMemories(userId, id, updates) ==
    /\ memories' = UpdateWhere(memories, id, userId, updates, "content")
    /\ lastApi' = Answer("PUT /api/memories/:id", userId, id, updates, 200)
    /\ UNCHANGED <<people, reminders, serial>>
    /\ UNCHANGED TickState

\* DELETE /api/memories/:id.
DeleteMemories(userId, id) ==
    /\ memories' = DeleteWhere(memories, id, userId)
    /\ lastApi' = Answer("DELETE /api/memories/:id", userId, id, <<>>, 200)
    /\ UNCHANGED <<people, reminders, serial>>
    /\ UNCHANGED TickState

\* POST /api/reminders.
PostReminders(userId, body) ==
    /\ (body.title # Undefined /\ PersonExists(body.personId))
          => serial.reminders < MaxReminders
    /\ IF body.title = Undefined \/ ~PersonExists(body.personId)
       THEN /\ lastApi' = Answer("POST /api/reminders", userId, 0, body, 500)
            /\ UNCHANGED <<reminders, serial>>
       ELSE /\ reminders' = Append(reminders,
                                 ApiReminderRow(serial.reminders + 1, userId,
                                                body.personId, body.title))
            /\ serial' = [serial EXCEPT !.reminders = @ + 1]
            /\ lastApi' = Answer("POST /api/reminders", userId, 0, body, 200)
    /\ UNCHANGED <<people, memories>>
    /\ UNCHANGED TickState

\* PUT /api/reminders/:id.
PutReminders(userId, id, updates) ==
    /\ reminders' = UpdateWhere(reminders, id, userId, updates, "title")
    /\ lastApi' = Answer("PUT /api/reminders/:id", userId, id, updates, 200)
    /\ UNCHANGED <<people, memories, serial>>
    /\ UNCHANGED TickState

\* DELETE /api/reminders/:id.
DeleteReminders(userId, id) ==
    /\ reminders' = DeleteWhere(reminders, id, userId)
    /\ lastApi' = Answer("DELETE /api/reminders/:id", userId, id, <<>>, 200)
    /\ UNCHANGED <<people, memories, serial>>
    /\ UNCHANGED TickState

\* getReminders(userId) and getMemories(userId): the user's rows, each with
\* the person the left join finds.
WithPerson(table, userId) ==
    {[row |-> row, person |-> LeftJoinPerson(row)] :
        row \in {q \in Rows(table) : q.userId = userId}}

\* GET /api/reminders.
GetReminders(userId) ==
    /\ lastApi' = Answer("GET /api/reminders", userId, 0,
                         WithPerson(reminders, userId), 200)
    /\ UNCHANGED <<people, memories, reminders, serial>>
    /\ UNCHANGED TickState

\* GET /api/memories.
GetMemories(userId) ==
    /\ lastApi' = Answer("GET /api/memories", userId, 0,
                         WithPerson(memories, userId), 200)
    /\ UNCHANGED <<people, memories, reminders, serial>>
    /\ UNCHANGED TickState

\* Two users, empty tables.
InitApi ==
    /\ clock = StartClock
    /\ lastCron = StartClock - 1
    /\ manualCount = 0
    /\ emailNotifications = <<>>
    /\ ticks = <<>>
    /\ lastPut = NoPut
    /\ tzOffset = 0
    /\ env = NoFaults
    /\ users = TwoUsers
    /\ reminders = <<>>
    /\ people = <<>>
    /\ memories = <<>>
    /\ serial = NoSerial
    /\ lastApi = NoRequest

NextApi ==
    \E userId \in UserIds :
        \/ \E body \in PersonBodies : PostPeople(userId, body)
        \/ \E id \in 1 .. MaxPeople, updates \in PersonUpdates :
               PutPeople(userId, id, updates)
        \/ \E id \in 1 .. MaxPeople : DeletePeople(userId, id)
        \/ \E body \in MemoryBodies : PostMemories(userId, body)
        \/ \E id \in 1 .. MaxMemories, updates \in MemoryUpdates :
               PutMemories(userId, id, updates)
        \/ \E id \in 1 .. MaxMemories : DeleteMemories(userId, id)
        \/ \E body \in ReminderBodies : PostReminders(userId, body)
        \/ \E id \in 1 .. MaxReminders, updates \in ReminderUpdates :
               PutReminders(userId, id, updates)
        \/ \E id \in 1 .. MaxReminders : DeleteReminders(userId, id)
        \/ GetReminders(userId)
        \/ GetMemories(userId)

SpecApi == InitApi /\ [][NextApi]_vars

(***************************************************************************)
(* What the checks have done so far.                                       *)
(***************************************************************************)

\* The rows a check has run the date tests on, with their outcome.
Evaluations ==
    UNION {{[tick |-> t, today |-> ticks[t].today, reminder |-> e.reminder,
             due |-> e.due, advance |-> e.advance, emailType |-> e.emailType] :
               e \in {ticks[t].evaluated[k] : k \in DOMAIN ticks[t].evaluated}} :
           t \in DOMAIN ticks}

\* The sendReminderEmail calls of the checks.
Dispatches ==
    UNION {{ticks[t].dispatched[k] : k \in DOMAIN ticks[t].dispatched} :
           t \in DOMAIN ticks}

\* The checks that ran to their end.
Finished == {t \in DOMAIN ticks : ticks[t].pc = "done"}

Range(seq) == {seq[k] : k \in DOMAIN seq}

(***************************************************************************)
(* C1.  A non-recurring reminder that a check evaluates is decided 'due'   *)
(* (OnDate) exactly when the check's local calendar day equals the         *)
(* reminder's date in year, month and day.                                 *)
(***************************************************************************)
C1_NonRecurringDueIffSameDate ==
    \A e \in Evaluations :
        ~e.reminder.isRecurring =>
            ((e.emailType = "due") <=>
                 /\ e.today.y = e.reminder.reminderDate.y
                 /\ e.today.m = e.reminder.reminderDate.m
                 /\ e.today.d = e.reminder.reminderDate.d)

\* One check has decided a non-recurring reminder 'due' on its date and has
\* passed over a non-recurring reminder of the same month and day of
\* another year.
C1_Witness ==
    /\ \E e \in Evaluations :
          ~e.reminder.isRecurring /\ e.emailType = "due"
    /\ \E e \in Evaluations :
          /\ ~e.reminder.isRecurring
          /\ e.emailType = ""
          /\ e.today.m = e.reminder.reminderDate.m
          /\ e.today.d = e.reminder.reminderDate.d

(***************************************************************************)
(* C2.  A recurring reminder that a check evaluates is decided 'due'       *)
(* exactly when the check's month and day of month equal those of the      *)
(* reminder's date, whatever the reminder's year.                          *)
(***************************************************************************)
C2_RecurringDueIffSameMonthDay ==
    \A e \in Evaluations :
        e.reminder.isRecurring =>
            ((e.emailType = "due") <=>
                 /\ e.today.m = e.reminder.reminderDate.m
                 /\ e.today.d = e.reminder.reminderDate.d)

(***************************************************************************)
(* C3.  A reminder with advanceDays = n > 0 is decided 'advance' exactly   *)
(* when the check's day is n days before the effective occurrence (the     *)
(* reminder's date, or for a recurring reminder its month and day in the   *)
(* check's year), and no evaluation passes both date tests.                *)
(***************************************************************************)
EffectiveOccurrence(e) ==
    IF e.reminder.isRecurring
    THEN NewDate(e.today.y, e.reminder.reminderDate.m, e.reminder.reminderDate.d)
    ELSE e.reminder.reminderDate

C3_AdvanceIffNDaysBefore ==
    \A e \in Evaluations :
        e.reminder.advanceDays > 0 =>
            /\ (e.emailType = "advance") <=>
                   (e.today = SetDate(EffectiveOccurrence(e),
                                      0 - e.reminder.advanceDays))
            /\ ~(e.due /\ e.advance)

(***************************************************************************)
(* C4.  With SMTP configured and the audit table healthy: with recipients  *)
(* <<a, b>>, a rejected send to a and a healthy b,                         *)
(* both are attempted and the dispatch leaves two audit rows: failed for   *)
(* a, sent for b.  In general every recipient of a dispatch is attempted.  *)
(***************************************************************************)
C4_FailureDoesNotStopFanOut ==
    \A d \in Dispatches :
        (env.smtp /\ env.auditFails = {}) =>
            /\ Range(d.recipients) = {s.to : s \in Range(d.sends)}
            /\ (/\ d.recipients = <<"a", "b">>
                 /\ "a" \in env.sendFails
                 /\ "b" \notin env.sendFails)
                => /\ Len(d.rows) = 2
                   /\ d.rows[1].emailAddress = "a"
                   /\ d.rows[1].status = "failed"
                   /\ d.rows[2].emailAddress = "b"
                   /\ d.rows[2].status = "sent"

(***************************************************************************)
(* C5.  Without SMTP credentials a dispatch to n recipients makes no       *)
(* transport call and inserts n audit rows, one per recipient, all with    *)
(* status simulated.                                                       *)
(***************************************************************************)
C5_UnconfiguredIsSimulated ==
    \A d \in Dispatches :
        (~env.smtp /\ env.auditFails = {}) =>
            /\ d.sends = <<>>
            /\ Len(d.rows) = Len(d.recipients)
            /\ \A k \in DOMAIN d.rows :
                  /\ d.rows[k].emailAddress = d.recipients[k]
                  /\ d.rows[k].status = "simulated"

(***************************************************************************)
(* C6.  Whatever the host's UTC offset, a check that ends without error    *)
(* on the local calendar day of an active reminder's date has decided      *)
(* that reminder 'due' and dispatched it.                                  *)
(***************************************************************************)
C6_LocalDayDecides ==
    \A t \in Finished :
        (ticks[t].ran /\ ~ticks[t].error) =>
            \A j \in DOMAIN reminders :
                (/\ reminders[j].isActive
                 /\ HasUser(reminders[j].userId)
                 /\ reminders[j].reminderDate = ticks[t].today)
                => /\ \E e \in Range(ticks[t].evaluated) :
                         e.reminder = reminders[j] /\ e.emailType = "due"
                   /\ \E d \in Range(ticks[t].dispatched) :
                         d.reminder = reminders[j]

(***************************************************************************)
(* C7.  At no time are two executions of the reminder check in progress.   *)
(***************************************************************************)
C7_ChecksNeverOverlap == Cardinality(Running) <= 1

(***************************************************************************)
(* C8.  With healthy collaborators the audit table holds at most one row   *)
(* per (reminder, address, local day), and one for every send attempted.   *)
(***************************************************************************)
AuditKey(row) ==
    [reminderId |-> row.reminderId, emailAddress |-> row.emailAddress,
     day |-> LocalDate(row.sentAt)]

C8_OneRowPerTriple ==
    (env.sendFails = {} /\ env.auditFails = {}) =>
        /\ \A i, j \in DOMAIN emailNotifications :
              i # j => AuditKey(emailNotifications[i])
                         # AuditKey(emailNotifications[j])
        /\ \A d \in Dispatches : \A s \in Range(d.sends) :
              \E i \in DOMAIN emailNotifications :
                  AuditKey(emailNotifications[i]) =
                      [reminderId |-> s.reminderId, emailAddress |-> s.to,
                       day |-> LocalDate(s.at)]

(***************************************************************************)
(* C9.  A check whose query succeeded goes through every row it fetched:   *)
(* each fetched row with an owner is evaluated and, when due, dispatched,  *)
(* also after an earlier row's lookup or dispatch threw.                   *)
(***************************************************************************)
C9_FailureDoesNotAbortCheck ==
    \A t \in Finished :
        (ticks[t].ran /\ ~env.fetchFails) =>
            \A k \in DOMAIN ticks[t].allReminders :
                LET r == ticks[t].allReminders[k]
                IN  (HasUser(r.userId) /\ r.userId \notin env.lookupFails) =>
                        \E e \in Range(ticks[t].evaluated) :
                            /\ e.reminder = r
                            /\ e.emailType # "" =>
                                  \E d \in Range(ticks[t].dispatched) :
                                      d.reminder = r

(***************************************************************************)
(* C10.  A manual trigger and a scheduled trigger handled on the same      *)
(* local day, over the same tables and settings, end with the same         *)
(* decisions, the same send attempts and the same audit rows.              *)
(***************************************************************************)
Outcome(t) ==
    [decisions |-> {[reminderId |-> e.reminder.id, emailType |-> e.emailType] :
                      e \in Range(ticks[t].evaluated)},
     attempts |-> {[reminderId |-> s.reminderId, to |-> s.to] :
                      s \in UNION {Range(d.sends) :
                                     d \in Range(ticks[t].dispatched)}},
     rows |-> {[reminderId |-> r.reminderId, emailAddress |-> r.emailAddress,
                status |-> r.status] :
                      r \in UNION {Range(d.rows) :
                                     d \in Range(ticks[t].dispatched)}}]

C10_ManualEqualsScheduled ==
    \A t1, t2 \in Finished :
        (/\ ticks[t1].kind = "cron"
         /\ ticks[t2].kind = "manual"
         /\ ticks[t1].today = ticks[t2].today)
        => Outcome(t1) = Outcome(t2)

IsLeapYear(y) == (y % 4 = 0 /\ y % 100 # 0) \/ y % 400 = 0

(***************************************************************************)
(* C11.  A recurring reminder dated February 29 that a check evaluates on  *)
(* February 28 of a year that is not a leap year is decided 'due'.         *)
(***************************************************************************)
C11_LeapDayFallsOnFeb28 ==
    \A e \in Evaluations :
        (/\ e.reminder.isRecurring
         /\ e.reminder.reminderDate.m = 2
         /\ e.reminder.reminderDate.d = 29
         /\ e.today.m = 2
         /\ e.today.d = 28
         /\ ~IsLeapYear(e.today.y))
        => e.emailType = "due"

\* What check t decided about row r: the email type, "" when it sends
\* nothing, whether the loop computed that or the query left the row out.
Decision(t, r) ==
    IF \E e \in Range(ticks[t].evaluated) : e.reminder = r
    THEN (CHOOSE e \in Range(ticks[t].evaluated) : e.reminder = r).emailType
    ELSE ""

(***************************************************************************)
(* C12.  Two checks that ran to their end without error with the same      *)
(* value of today decide the same about every active reminder: nothing     *)
(* but the reminder and today enters the decision.                         *)
(***************************************************************************)
C12_DecisionDependsOnReminderAndToday ==
    \A t1, t2 \in Finished :
        (/\ ticks[t1].fetched /\ ~ticks[t1].error
         /\ ticks[t2].fetched /\ ~ticks[t2].error
         /\ ticks[t1].today = ticks[t2].today)
        => \A r \in Range(reminders) :
               r.isActive => Decision(t1, r) = Decision(t2, r)

\* The addresses the claim gives a user.
recipientsFor(user) ==
    IF Len(user.notificationEmails) > 0 THEN Range(user.notificationEmails)
    ELSE IF user.email # NoEmail THEN {user.email}
    ELSE {}

(***************************************************************************)
(* C13.  With SMTP configured and the notification log writable, every     *)
(* sendReminderEmail call for a user that is still stored attempts a send  *)
(* to exactly the user's notificationEmails when there are some, else to   *)
(* the primary email when there is one, else to nobody, and then it        *)
(* writes no row either.                                                   *)
(***************************************************************************)
C13_AttemptsExactlyTheRecipients ==
    \A d \in Dispatches :
        (HasUser(d.reminder.userId) /\ env.smtp /\ env.auditFails = {}) =>
            LET to == recipientsFor(users[d.reminder.userId])
            IN  /\ {call.to : call \in Range(d.sends)} = to
                /\ (to = {}) => (d.sends = <<>> /\ d.rows = <<>>)

(***************************************************************************)
(* C14.  No check evaluates or dispatches a reminder that is not active,   *)
(* and no stored notification row is about one.                            *)
(***************************************************************************)
C14_InactiveNeverSends ==
    \A r \in Range(reminders) :
        ~r.isActive =>
            /\ \A e \in Evaluations : e.reminder.id # r.id
            /\ \A d \in Dispatches : d.reminder.id # r.id
            /\ \A n \in Range(emailNotifications) : n.reminderId # r.id

\* A check ended on the very date of an inactive reminder and sent another
\* reminder of that date.
C14_Witness ==
    \E t \in Finished :
        \E r \in Range(reminders) :
            /\ ~r.isActive
            /\ r.reminderDate = ticks[t].today
            /\ \E d \in Range(ticks[t].dispatched) :
                   /\ d.reminder.reminderDate = r.reminderDate
                   /\ Len(d.rows) > 0

(***************************************************************************)
(* C15.  The rows a check fetched are all the active reminders in storage, *)
(* whether dated before, on or after the day of the check.                 *)
(***************************************************************************)
C15_EveryActiveReminderExamined ==
    \A t \in DOMAIN ticks :
        (ticks[t].fetched /\ env.orphans = {}) =>
            Range(ticks[t].allReminders) = {r \in Range(reminders) : r.isActive}

(***************************************************************************)
(* C19.  The subject of every row written for a birthday reminder says     *)
(* "is today" when the reminder was sent as 'due' and gives the number of  *)
(* days when it was sent as 'advance'.                                     *)
(***************************************************************************)
C19_SubjectFollowsDecision ==
    \A d \in Dispatches :
        d.reminder.type = "birthday" =>
            \A row \in Range(d.rows) :
                IF d.emailType = "due"
                THEN row.subject.phrase = "is today"
                ELSE /\ row.subject.phrase = "in days"
                     /\ row.subject.days = d.reminder.advanceDays

(***************************************************************************)
(* C16.  A check whose query failed is over at once with nothing           *)
(* evaluated and nothing sent or logged; while storage is down every       *)
(* check ends so; after a failure the cron trigger of every later day      *)
(* still starts a check, and a check whose query succeeds works on the     *)
(* rows that query returns.                                                *)
(***************************************************************************)
C16_FetchFailureEndsTickOnly ==
    /\ \A t \in DOMAIN ticks :
           (ticks[t].ran /\ (env.fetchFails \/ ~ticks[t].fetched)) =>
               /\ ~ticks[t].fetched
               /\ ticks[t].pc = "done"
               /\ ticks[t].allReminders = <<>>
               /\ ticks[t].evaluated = <<>>
               /\ ticks[t].dispatched = <<>>
    /\ (\E t \in DOMAIN ticks : ticks[t].ran /\ ~ticks[t].fetched) =>
           /\ \A h \in StartClock .. clock :
                  (/\ (h - StartClock) % 12 = 0
                   /\ h < clock
                   /\ LocalHour(h) = CronHour)
                  => \E t \in DOMAIN ticks :
                         /\ ticks[t].kind = "cron"
                         /\ ticks[t].at = h
                         /\ ticks[t].ran
           /\ \A t \in DOMAIN ticks :
                  (ticks[t].fetched /\ env.orphans = {}) =>
                      ticks[t].allReminders = getDueReminders(ticks[t].at)

\* The cron check of one day failed at its query, and the cron check of
\* the next day fetched the rows and evaluated them.
C16_Witness ==
    \E t1, t2 \in Finished :
        /\ ticks[t1].kind = "cron" /\ ticks[t2].kind = "cron"
        /\ ticks[t1].at < ticks[t2].at
        /\ ticks[t1].ran /\ ~ticks[t1].fetched /\ ticks[t1].error
        /\ ticks[t2].fetched /\ ~ticks[t2].error
        /\ Len(ticks[t2].evaluated) = Len(reminders)

(***************************************************************************)
(* C17.  A row whose owner is not found is neither evaluated nor sent by   *)
(* the check, and the check goes past it: it ends only after the last      *)
(* row, every other row of a check that ended without error having been    *)
(* evaluated or skipped.                                                   *)
(***************************************************************************)
C17_MissingOwnerIsSkipped ==
    \A t \in {x \in DOMAIN ticks : ticks[x].skipped # <<>>} :
        \A k \in DOMAIN ticks[t].allReminders :
            LET tick == ticks[t]
                r == tick.allReminders[k]
            IN  r \in Range(tick.skipped) =>
                    /\ \A e \in Range(tick.evaluated) : e.reminder # r
                    /\ \A d \in Range(tick.dispatched) : d.reminder # r
                    /\ \A n \in Range(emailNotifications) :
                           ~(n.reminderId = r.id /\ n.sentAt = tick.at)
                    /\ tick.i > k
                    /\ (tick.pc = "done" /\ ~tick.error) =>
                           \A q \in Range(tick.allReminders) :
                               \/ q \in Range(tick.skipped)
                               \/ \E e \in Range(tick.evaluated) :
                                      e.reminder = q

\* A check skipped a row whose owner was gone and then sent the next row.
C17_Witness ==
    \E t \in Finished :
        /\ Len(ticks[t].skipped) > 0
        /\ ~HasUser(ticks[t].skipped[1].userId)
        /\ ticks[t].allReminders[1] = ticks[t].skipped[1]
        /\ \E d \in Range(ticks[t].dispatched) :
               d.reminder = ticks[t].allReminders[2] /\ Len(d.rows) > 0

\* The year, month and day name a day of the calendar.
IsCalendarDate(date) ==
    /\ date.m \in 1 .. 12
    /\ date.d >= 1
    /\ date.d <= (IF date.m = 2 THEN (IF IsLeapYear(date.y) THEN 29 ELSE 28)
                  ELSE IF date.m \in {4, 6, 9, 11} THEN 30 ELSE 31)

Labels(s, lo, hi) ==
    /\ lo <= hi
    /\ s[lo] # "." /\ s[hi] # "."
    /\ \A k \in lo .. hi - 1 : ~(s[k] = "." /\ s[k + 1] = ".")

\* An address text of the form local@domain: one "@", no space, local part
\* and domain made of non-empty labels, the domain of two at least.
IsEmailAddress(s) ==
    /\ Cardinality({k \in DOMAIN s : s[k] = "@"}) = 1
    /\ \A k \in DOMAIN s : s[k] # " "
    /\ LET at == CHOOSE k \in DOMAIN s : s[k] = "@"
       IN  /\ Labels(s, 1, at - 1)
           /\ Labels(s, at + 1, Len(s))
           /\ \E k \in at + 1 .. Len(s) : s[k] = "."

(***************************************************************************)
(* C20.  Every address stored in a user's notificationEmails is a valid    *)
(* email address, and a settings request that contains an invalid address  *)
(* is answered 400.                                                        *)
(***************************************************************************)
C20_StoredAddressesAreValid ==
    /\ \A u \in DOMAIN users :
           \A a \in Range(users[u].notificationEmails) : IsEmailAddress(a)
    /\ (lastPut.status # 0 /\ lastPut.body.present
          /\ \E a \in Range(lastPut.body.value) : ~IsEmailAddress(a))
        => lastPut.status = 400

\* The checks started by the cron schedule.
Scheduled == {t \in DOMAIN ticks : ticks[t].kind = "cron"}

C23_AdvanceNoticeIsSent ==
    \A t \in Finished :
        (/\ ticks[t].fetched
         /\ env.sendFails = {} /\ env.auditFails = {} /\ env.lookupFails = {}) =>
            \A r \in Range(reminders) :
                (/\ r.isActive /\ ~r.isRecurring /\ r.advanceDays > 0
                 /\ HasUser(r.userId)
                 /\ recipientsFor(users[r.userId]) # {}
                 /\ IsCalendarDate(r.reminderDate)
                 /\ ticks[t].today =
                        SetDate(r.reminderDate, 0 - r.advanceDays))
                => \E d \in Range(ticks[t].dispatched) :
                       /\ d.reminder = r
                       /\ Len(d.sends) > 0
                       /\ Len(d.rows) > 0

C25_ChecksOnlyAppendNotifications ==
    [][ticks' # ticks =>
            /\ users' = users
            /\ reminders' = reminders
            /\ Len(emailNotifications') >= Len(emailNotifications)
            /\ SubSeq(emailNotifications', 1, Len(emailNotifications))
                   = emailNotifications]_vars

\* Two checks have written rows, the second after the rows of the first.
C25_Witness ==
    \E t1, t2 \in Finished :
        /\ t1 < t2
        /\ \E d1 \in Range(ticks[t1].dispatched) :
           \E d2 \in Range(ticks[t2].dispatched) :
               /\ Len(d1.rows) > 0 /\ Len(d2.rows) > 0
               /\ emailNotifications = d1.rows \o d2.rows

(***************************************************************************)
(* C26.  With SMTP set up and the log writable, a check that has ended has *)
(* for every address it called the transport with a notification row of    *)
(* that reminder and address.                                              *)
(***************************************************************************)
C26_EveryAttemptIsLogged ==
    \A t \in Finished :
        (env.smtp /\ env.auditFails = {}) =>
            \A d \in Range(ticks[t].dispatched) :
                \A call \in Range(d.sends) :
                    \E row \in Range(d.rows) :
                        /\ row.reminderId = call.reminderId
                        /\ row.emailAddress = call.to

(***************************************************************************)
(* C27.  With SMTP set up, every notification row names an address of the  *)
(* recipient list of its dispatch, never the empty address, and a row      *)
(* with status failed names the address whose send was rejected.           *)
(***************************************************************************)
C27_RowsNameRecipients ==
    \A d \in {x \in Dispatches : env.smtp} :
        \A row \in Range(d.rows) :
            /\ row.emailAddress \in Range(d.recipients)
            /\ row.emailAddress # NoEmail
            /\ row.status = "failed" =>
                   \E call \in Range(d.sends) :
                       ~call.ok /\ call.to = row.emailAddress

(***************************************************************************)
(* C28.  With SMTP set up, a row with status sent is of a send the         *)
(* transport accepted, and a row with status failed is written only in a   *)
(* dispatch one of whose sends the transport rejected: an accepted send    *)
(* is never logged as failed.                                              *)
(***************************************************************************)
C28_StatusMatchesTransport ==
    \A d \in {x \in Dispatches : env.smtp} :
        \A row \in Range(d.rows) :
            /\ row.status = "sent" =>
                   \E call \in Range(d.sends) :
                       call.ok /\ call.to = row.emailAddress
            /\ row.status = "failed" =>
                   \E call \in Range(d.sends) : ~call.ok

(***************************************************************************)
(* C21.  A POST to /api/people, /api/memories or /api/reminders whose body *)
(* has no fullName, content or title is answered with status 400.          *)
(***************************************************************************)
C21_MissingFieldIs400 ==
    (\/ lastApi.route = "POST /api/people" /\ lastApi.body.fullName = Undefined
     \/ lastApi.route = "POST /api/memories" /\ lastApi.body.content = Undefined
     \/ lastApi.route = "POST /api/reminders" /\ lastApi.body.title = Undefined)
    => lastApi.status = 400

(***************************************************************************)
(* C29.  The person joined to a stored reminder or memory, and so the      *)
(* person returned with a user's reminders and memories or written into a  *)
(* reminder's email, is a person of the user who owns the reminder or      *)
(* memory.                                                                 *)
(***************************************************************************)
C29_JoinedPersonHasSameOwner ==
    /\ \A row \in Rows(reminders) \cup Rows(memories) :
           LeftJoinPerson(row) # NullPerson =>
               LeftJoinPerson(row).userId = row.userId
    /\ lastApi.route \in {"GET /api/reminders", "GET /api/memories"} =>
           \A x \in lastApi.body :
               x.person # NullPerson => x.person.userId = lastApi.userId

\* A request on one of the routes, made with the id of a row of the table
\* (old) that is another user's, leaves the row in the table (new), and no
\* request changes the userId of a row.
OwnershipKept(old, new, routes) ==
    \A row \in Rows(old) :
        /\ (/\ lastApi'.route \in routes
            /\ lastApi'.id = row.id
            /\ lastApi'.userId # row.userId) => row \in Rows(new)
        /\ \A q \in Rows(new) : q.id = row.id => q.userId = row.userId

(***************************************************************************)
(* C30.  An update or delete made by a user with the id of a person,       *)
(* memory or reminder of another user leaves that row as it is, and no     *)
(* request changes the userId a row was created with.                      *)
(***************************************************************************)
C30_OwnershipIsKept ==
    [][/\ OwnershipKept(people, people',
                        {"PUT /api/people/:id", "DELETE /api/people/:id"})
       /\ OwnershipKept(memories, memories',
                        {"PUT /api/memories/:id", "DELETE /api/memories/:id"})
       /\ OwnershipKept(reminders, reminders',
                        {"PUT /api/reminders/:id",
                         "DELETE /api/reminders/:id"})]_vars

====
